---- MODULE Spec2Model ----
(***************************************************************************)
(* MFDataset.py: a Dataset spanning several netCDF files.  Dataset.__init__*)
(* opens the master and every further file, validates the record variables *)
(* of each file against the master and builds the per-file record counts;  *)
(* Dimension.__len__ reports the total; Variable.__getitem__ reads a slice *)
(* across the files and concatenates the per-file reads.                   *)
(***************************************************************************)
EXTENDS Integers, Sequences, FiniteSets, TLC

(* ------------------------------ bounds --------------------------------- *)

\* most files in one call of Dataset(cdfFiles), over every layout
MaxFiles == 2
\* most files in one call of Dataset(cdfFiles), over the usual layout
MaxParts == 3
\* most records in one file
MaxRec == 7
\* most records in a file whose schema differs from the usual one
MaxOddRec == 3
\* largest resolved start on axis 0 of a read
MaxStart == 4
\* largest resolved count on axis 0 of a read
MaxCount == 5
\* largest resolved stride on axis 0 of a read
MaxStride == 2

(* ------------------------- the files on disk --------------------------- *)

\* A dimension object of a single file (netCDF4_classic.Dimension).
ClassicDim(n, unlimited) ==
    [cls |-> "netCDF4_classic.Dimension", len |-> n, unlim |-> unlimited]

\* A variable object of a single file (netCDF4_classic.Variable).
ClassicVar(dims, type) ==
    [cls |-> "netCDF4_classic.Variable", dimensions |-> dims, dtype |-> type]

\* The layouts a file may have.  "ok" is the layout of the self-test, reduced
\* to one record variable "data" over (x, y) and one fixed variable "lat".
Variants == {"ok", "missing", "fixed", "dims", "rank", "scalar", "shape", "dtype"}

\* The file of layout k holding n records: what netCDF4_classic.Dataset(path)
\* shows of it.
FileOf(k, n) ==
    [ dimensions |->
          ("x" :> ClassicDim(n, k # "fixed"))
       @@ ("y" :> ClassicDim(IF k = "shape" THEN 3 ELSE 2, FALSE))
       @@ ("z" :> ClassicDim(2, FALSE)),
      variables |->
          ("lat" :> ClassicVar(<<"y">>, "f"))
       @@ (IF k = "missing" THEN <<>>
           ELSE "data" :> ClassicVar(
                    CASE k = "dims"   -> <<"x", "z">>
                      [] k = "rank"   -> <<"x">>
                      [] k = "scalar" -> <<>>
                      [] OTHER        -> <<"x", "y">>,
                    IF k = "dtype" THEN "f" ELSE "i")) ]

\* The paths a call may name: one per layout and record count.
PathOf(k, n) == [layout |-> k, nrec |-> n]
UsualFiles == { PathOf("ok", n) : n \in 0..MaxRec }
OddFiles == { PathOf(k, n) : k \in Variants \ {"ok"}, n \in 0..MaxOddRec }
AllFiles == UsualFiles \cup OddFiles

\* The file a path names.
OnDisk(path) == FileOf(path.layout, path.nrec)

\* The sequences of at most `most' paths drawn from S.
FileLists(S, most) == UNION { [1..k -> S] : k \in 0..most }

(* ------------------------------ helpers -------------------------------- *)

\* reduce(lambda x, y: x + y, s)
RECURSIVE SumSeq(_)
SumSeq(s) == IF s = <<>> THEN 0 ELSE s[1] + SumSeq(Tail(s))

\* abs(n)
Abs(n) == IF n < 0 THEN -n ELSE n

\* var.shape of a variable of a single file
ShapeOf(file, v) ==
    [ i \in 1..Len(file.variables[v].dimensions) |->
          file.dimensions[file.variables[v].dimensions[i]].len ]

\* s[1:]
Rest(s) == IF s = <<>> THEN <<>> ELSE Tail(s)

\* F(val), with val evaluated once however often F uses it
Let(val, F(_)) == CHOOSE y \in { F(x) : x \in {val} } : TRUE

\* The indices lst[start:stop:step] selects in a list of n items, in order
\* (what slice(start, stop, step).indices(n) and range give in Python).
PySlice(n, start, stop, step) ==
    LET lower == IF step < 0 THEN -1 ELSE 0
        upper == IF step < 0 THEN n - 1 ELSE n
        Adjust(v) == IF v < 0
                     THEN (IF v + n < lower THEN lower ELSE v + n)
                     ELSE (IF v > upper THEN upper ELSE v)
        a == Adjust(start)
        b == Adjust(stop)
        cnt == IF step > 0
               THEN (IF a < b THEN ((b - a - 1) \div step) + 1 ELSE 0)
               ELSE (IF b < a THEN ((a - b - 1) \div (-step)) + 1 ELSE 0)
    IN  [ i \in 1..cnt |-> a + (i - 1) * step ]

(* ------------------------------- state --------------------------------- *)

VARIABLES
    cdfFiles,    \* the argument of Dataset(cdfFiles)
    handles,     \* every netCDF4_classic.Dataset the call opened, in order
    _cdf,        \* self._cdf: positions in handles of the accepted files
    _cdfVLen,    \* self._cdfVLen: records per accepted file
    _cdfTLen,    \* self._cdfTLen: total number of records
    _cdfRecVar,  \* self._cdfRecVar: record variable -> positions in handles
    outcome,     \* how the constructor ended
    obs          \* what the last call on the dataset returned or raised

vars == <<cdfFiles, handles, _cdf, _cdfVLen, _cdfTLen, _cdfRecVar, outcome, obs>>

NoOutcome == [status |-> "none", exc |-> "", prop |-> ""]
Returned == [status |-> "ok", exc |-> "", prop |-> ""]
\* raise exc(...): prop is the property the message speaks of
Raise(exc, prop) == [status |-> "raised", exc |-> exc, prop |-> prop]

NoArray == [kind |-> "none", shape |-> <<>>, flat |-> <<>>]
NoObs == [op |-> "none", var |-> "", req |-> <<>>, raised |-> "",
          log |-> <<>>, value |-> NoArray, len |-> -1]

Init ==
    /\ cdfFiles = <<>>
    /\ handles = <<>>
    /\ _cdf = <<>>
    /\ _cdfVLen = <<>>
    /\ _cdfTLen = 0
    /\ _cdfRecVar = <<>>
    /\ outcome = NoOutcome
    /\ obs = NoObs

(* ------------------------- Dataset.__init__ ---------------------------- *)

\* netCDF4_classic.Dataset(f): a handle on the file at path f with the file's
\* own dimension and variable catalogs.  Nothing in the module closes a handle.
OpenHandle(f) ==
    [isopen |-> TRUE, dimensions |-> OnDisk(f).dimensions,
     variables |-> OnDisk(f).variables]

\* the names of the unlimited dimensions of a handle
UnlimDims(h) == { d \in DOMAIN h.dimensions : h.dimensions[d].unlim }

\* masterRecVar: the variables of the master whose first dimension is the
\* unlimited one, each with (dims, shape, type)
MasterRecVar(cdfm, unlimDimName) ==
    LET names == { v \in DOMAIN cdfm.variables :
                     /\ Len(cdfm.variables[v].dimensions) > 0
                     /\ cdfm.variables[v].dimensions[1] = unlimDimName }
    IN  [ v \in names |-> [dims |-> cdfm.variables[v].dimensions,
                           shape |-> ShapeOf(cdfm, v),
                           type |-> cdfm.variables[v].dtype] ]

\* The body of the loop over masterRecVar.keys() for one variable v of one
\* further file: Returned when v is appended, the raise otherwise.
CheckVar(part, v, m) ==
    IF v \notin DOMAIN part.variables
    THEN Raise("MFDatasetError", "not defined")
    ELSE LET vInst == part.variables[v]
             extShape == ShapeOf(part, v)
         IN  IF vInst.dimensions = <<>>
             THEN Raise("IndexError", "vInst.dimensions[0]")
             ELSE IF ~ part.dimensions[vInst.dimensions[1]].unlim
             THEN Raise("MFDataset", "not a record var")
             ELSE IF Len(PySlice(extShape[1], 0, 3, 1)) # 3
             THEN Raise("ValueError", "unpack varInfo[v][:3]")
             ELSE IF m.dims # vInst.dimensions
             THEN Raise("MFDatasetError", "dimensions")
             ELSE IF Len(m.shape) # Len(extShape)
             THEN Raise("MFDatasetError", "rank")
             ELSE IF Rest(m.shape) # Rest(extShape)
             THEN Raise("MFDatasetError", "shape")
             ELSE IF m.type # vInst.dtype
             THEN Raise("MFDatasetError", "data type")
             ELSE Returned

\* for v in masterRecVar.keys(): the first raise ends the loop
RECURSIVE CheckVars(_, _, _)
CheckVars(part, vs, masterRecVar) ==
    IF vs = {} THEN Returned
    ELSE LET v == CHOOSE w \in vs : TRUE
             r == CheckVar(part, v, masterRecVar[v])
         IN  IF r.status = "raised" THEN r
             ELSE CheckVars(part, vs \ {v}, masterRecVar)

\* for f in cdfFiles[1:], from the i-th file on.  st holds the handles opened
\* so far, cdf and cdfVLen; the result adds how the loop ended.
RECURSIVE OpenParts(_, _, _, _, _)
OpenParts(files, i, masterRecVar, unlimDimName, st) ==
    IF i > Len(files)
    THEN [st EXCEPT !.outcome = Returned]
    ELSE LET part == OpenHandle(files[i])
             opened == Append(st.handles, part)
             r == CheckVars(part, DOMAIN masterRecVar, masterRecVar)
         IN  IF r.status = "raised"
             THEN [st EXCEPT !.handles = opened, !.outcome = r]
             ELSE OpenParts(files, i + 1, masterRecVar, unlimDimName,
                      [st EXCEPT !.handles = opened,
                                 !.cdf = Append(st.cdf, Len(opened)),
                                 !.cdfVLen = Append(st.cdfVLen,
                                     part.dimensions[unlimDimName].len)])

\* Dimension(dimname, dim, dimlens, dimtotlen)
Dimension(dimlens, dimtotlen) ==
    [cls |-> "MFDataset.Dimension", dimlens |-> dimlens,
     dimtotlen |-> dimtotlen, unlim |-> TRUE]

\* Variable(dset, varname, var, recdimname); _recLen and _dset are the
\* dataset's own _cdfVLen and dimensions, read where they are used
Variable(var, recVar, recdimname) ==
    [cls |-> "MFDataset.Variable", dimensions |-> var.dimensions,
     dtype |-> var.dtype, _mastervar |-> var, _recVar |-> recVar,
     _recdimname |-> recdimname]

\* self._dims = cdfm.dimensions and the loop that follows: the catalog is the
\* master handle's own dictionary, so the entries are replaced in it
WrapDims(dimensions, cdfVLen, cdfTLen) ==
    [ d \in DOMAIN dimensions |->
          IF dimensions[d].unlim THEN Dimension(cdfVLen, cdfTLen)
          ELSE dimensions[d] ]

\* self._vars = cdfm.variables and the loop that follows, likewise
WrapVars(variables, cdfRecVar, unlimDimName) ==
    [ v \in DOMAIN variables |->
          IF v \in DOMAIN cdfRecVar
          THEN Variable(variables[v], cdfRecVar[v], unlimDimName)
          ELSE variables[v] ]

\* The constructor from its first line to its return or raise.
OpenResult(files) ==
    LET empty == [handles |-> <<>>, cdf |-> <<>>, cdfVLen |-> <<>>,
                  outcome |-> NoOutcome]
    IN  IF files = <<>>
        THEN [empty EXCEPT !.outcome = Raise("IndexError", "cdfFiles[0]")]
        ELSE
        LET cdfm == OpenHandle(files[1])
            one == [empty EXCEPT !.handles = <<cdfm>>]
        IN  IF UnlimDims(cdfm) = {}
            THEN [one EXCEPT !.outcome =
                      Raise("MFDatasetError", "no unlimited dimension")]
            ELSE
            LET unlimDimName == CHOOSE d \in UnlimDims(cdfm) : TRUE
                masterRecVar == MasterRecVar(cdfm, unlimDimName)
            IN  IF DOMAIN masterRecVar = {}
                THEN [one EXCEPT !.outcome =
                          Raise("MFDatasetError", "no record variable")]
                ELSE OpenParts(files, 2, masterRecVar, unlimDimName,
                         [one EXCEPT !.cdf = <<1>>,
                              !.cdfVLen = <<cdfm.dimensions[unlimDimName].len>>])

\* Dataset(cdfFiles)
Open(files) ==
    /\ outcome.status = "none"
    /\ \E r \in {OpenResult(files)} :
       LET ok == r.outcome.status = "ok"
           cdfm == r.handles[1]
           unlimDimName == CHOOSE d \in UnlimDims(cdfm) : TRUE
           recVars == DOMAIN MasterRecVar(cdfm, unlimDimName)
           cdfTLen == SumSeq(r.cdfVLen)
           cdfRecVar == [ v \in recVars |-> r.cdf ]
       IN  /\ cdfFiles' = files
           /\ outcome' = r.outcome
           /\ _cdf' = r.cdf
           /\ _cdfVLen' = IF ok THEN r.cdfVLen ELSE <<>>
           /\ _cdfTLen' = IF ok THEN cdfTLen ELSE 0
           /\ _cdfRecVar' = IF ok THEN cdfRecVar ELSE <<>>
           /\ handles' =
                IF ok
                THEN [r.handles EXCEPT ![1] =
                        [cdfm EXCEPT
                           !.dimensions = WrapDims(cdfm.dimensions, r.cdfVLen, cdfTLen),
                           !.variables = WrapVars(cdfm.variables, cdfRecVar, unlimDimName)]]
                ELSE r.handles
           /\ obs' = NoObs

(* --------------------- Dataset.dimensions, .variables ------------------ *)

\* self._dims: the dictionary of the master handle itself
_dims == handles[1].dimensions

\* self._vars: the dictionary of the master handle itself
_vars == handles[1].variables

\* len(dim) were Dimension.__len__ to return the first file's count,
\* self.dimlens[0]
DimLen_FirstFile(dim) ==
    IF dim.cls = "MFDataset.Dimension" THEN dim.dimlens[1] ELSE dim.len

\* len(dim), for an entry of a dimension catalog
DimLen(dim) ==
    IF dim.cls = "MFDataset.Dimension" THEN dim.dimtotlen ELSE dim.len

\* Variable._shape
Shape(v) ==
    <<DimLen(_dims[_vars[v]._recdimname])>> \o Rest(ShapeOf(OnDisk(cdfFiles[1]), v))

\* len(f.dimensions[d])
QueryLen(d) ==
    /\ outcome.status = "ok"
    /\ obs = NoObs
    /\ obs' = [NoObs EXCEPT !.op = "len", !.var = d, !.len = DimLen(_dims[d])]
    /\ UNCHANGED <<cdfFiles, handles, _cdf, _cdfVLen, _cdfTLen, _cdfRecVar, outcome>>

\* f.variables[v].shape
QueryShape(v) ==
    /\ outcome.status = "ok"
    /\ obs = NoObs
    /\ _vars[v].cls = "MFDataset.Variable"
    /\ obs' = [NoObs EXCEPT !.op = "shape", !.var = v,
                            !.value = [NoArray EXCEPT !.shape = Shape(v)]]
    /\ UNCHANGED <<cdfFiles, handles, _cdf, _cdfVLen, _cdfTLen, _cdfRecVar, outcome>>

(* ------------------------- Variable.__getitem__ ------------------------ *)

\* slice(start, stop, step) and a plain index, as items of an indexing tuple
SliceOf(start, stop, step) ==
    [kind |-> "slice", start |-> start, stop |-> stop, step |-> step]
IndexOf(i) == [kind |-> "int", start |-> i, stop |-> i + 1, step |-> 1]

\* the positions an item selects on an axis of length n
Positions(item, n) ==
    IF item.kind = "int" THEN <<item.start>>
    ELSE PySlice(n, item.start, item.stop, item.step)

\* netCDF4_classic.Variable.__getitem__(var, items) on variable v of a file,
\* which is the n-th of the dataset: the value at record r, column c is the
\* cell <<n, r, c>>; an axis indexed by a plain index is dropped
FileRead(n, file, v, items) ==
    Let(ShapeOf(file, v), LAMBDA shape :
    Let([ a \in 1..Len(shape) |-> Positions(items[a], shape[a]) ], LAMBDA pos :
        LET rows == pos[1]
            nc == IF Len(shape) > 1 THEN Len(pos[2]) ELSE 1
            Cell(k) == IF Len(shape) > 1
                       THEN <<n, rows[((k - 1) \div nc) + 1],
                              pos[2][((k - 1) % nc) + 1]>>
                       ELSE <<n, rows[k]>>
            kept == { a \in 1..Len(shape) : items[a].kind = "slice" }
        IN  [kind |-> "ndarray",
             shape |-> IF kept = {1, 2} THEN <<Len(pos[1]), Len(pos[2])>>
                       ELSE IF kept = {1} THEN <<Len(pos[1])>>
                       ELSE IF kept = {2} THEN <<Len(pos[2])>>
                       ELSE <<>>,
             flat |-> [ k \in 1..(Len(rows) * nc) |-> Cell(k) ]]))

\* numpy.concatenate(lstArr)
RECURSIVE Concatenate(_)
Concatenate(arrs) ==
    IF Len(arrs) = 1 THEN arrs[1]
    ELSE Let(Concatenate(Tail(arrs)), LAMBDA b :
             [kind |-> "ndarray",
              shape |-> <<arrs[1].shape[1] + b.shape[1]>> \o Rest(arrs[1].shape),
              flat |-> arrs[1].flat \o b.flat])

\* zip(idx, vid) were the record indices range(1, k + 1)
RECURSIVE ZipIdxVid_FromOne(_, _)
ZipIdxVid_FromOne(recLen, n) ==
    IF n >= Len(recLen) THEN <<>>
    ELSE [ i \in 1..recLen[n + 1] |-> <<i, n>> ] \o ZipIdxVid_FromOne(recLen, n + 1)

\* zip(idx, vid) after the loop over range(nv): the pairs (record index,
\* variable index) of the files from the n-th on, in order
RECURSIVE ZipIdxVid(_, _)
ZipIdxVid(recLen, n) ==
    IF n >= Len(recLen) THEN <<>>
    ELSE [ i \in 1..recLen[n + 1] |-> <<i - 1, n>> ] \o ZipIdxVid(recLen, n + 1)

\* (numpy.array(stride) < 0).all()
AnyNegative_All(stride) == \A a \in 1..Len(stride) : stride[a] < 0

\* (numpy.array(stride) < 0).any()
AnyNegative(stride) == \E a \in 1..Len(stride) : stride[a] < 0

\* slice(idx[0], idx[-1], step)
FileSlice_LastLeftOut(idx, step) == SliceOf(idx[1], idx[Len(idx)], step)

\* slice(idx[0], idx[-1] + 1, step)
FileSlice(idx, step) == SliceOf(idx[1], idx[Len(idx)] + 1, step)

\* the loop over range(nv) from the n-th file on: the reads issued, as
\* [file, items, arr], in the order they are issued
RECURSIVE ReadFiles(_, _, _, _, _)
ReadFiles(v, lst, newSlice, step, n) ==
    IF n >= Len(_cdfVLen) THEN <<>>
    ELSE Let(SelectSeq(lst, LAMBDA p : p[2] = n), LAMBDA pairs :
         LET idx == [ k \in 1..Len(pairs) |-> pairs[k][1] ]
             items == [newSlice EXCEPT ![1] = FileSlice(idx, step)]
             rest == ReadFiles(v, lst, newSlice, step, n + 1)
         IN  IF idx # <<>>
             THEN <<[file |-> n, items |-> items,
                     arr |-> FileRead(n, OnDisk(cdfFiles[_vars[v]._recVar[n + 1]]), v, items)]>>
                  \o rest
             ELSE rest)

\* Variable.__getitem__(elem), elem given as what _buildStartCountStride
\* resolves it to: per axis [start, count, stride], count -1 for a plain index
GetItem(v, elem) ==
    LET start == [ a \in 1..Len(elem) |-> elem[a].start ]
        count == [ a \in 1..Len(elem) |-> Abs(elem[a].count) ]
        stride == [ a \in 1..Len(elem) |-> elem[a].stride ]
    IN  IF AnyNegative(stride)
        THEN [raised |-> "IndexError", log |-> <<>>, value |-> NoArray]
        ELSE
        LET sta == start[1]
            step == stride[1]
            stop == sta + count[1] * step
            zipped == ZipIdxVid(_cdfVLen, 0)
            sel == PySlice(Len(zipped), sta, stop, step)
            lst == [ k \in 1..Len(sel) |-> zipped[sel[k] + 1] ]
            newSlice == [ a \in 1..Len(elem) |->
                            IF a = 1 THEN SliceOf(0, 0, 1)
                            ELSE SliceOf(start[a], start[a] + count[a] * stride[a],
                                         stride[a]) ]
        IN  Let(ReadFiles(v, lst, newSlice, step, 0), LAMBDA reads :
            LET lstArr == [ k \in 1..Len(reads) |-> reads[k].arr ]
            IN  [raised |-> "",
                 log |-> [ k \in 1..Len(reads) |->
                             [file |-> reads[k].file, items |-> reads[k].items] ],
                 value |-> IF lstArr # <<>> THEN Concatenate(lstArr)
                           ELSE [kind |-> "list", shape |-> <<0>>, flat |-> <<>>]])

\* the resolved requests on axis 0
Axis0Reqs ==
    { [start |-> s, count |-> -1, stride |-> 1] : s \in 0..MaxStart } \cup
    { [start |-> s, count |-> c, stride |-> t] :
        s \in 0..MaxStart, c \in 0..MaxCount, t \in (-1..MaxStride) \ {0} }

\* the resolved requests on an axis of two or three columns: all of it, the
\* second column as a plain index, and all of it reversed
Axis1Reqs ==
    { [start |-> 0, count |-> 2, stride |-> 1],
      [start |-> 1, count |-> -1, stride |-> 1],
      [start |-> 1, count |-> 2, stride |-> -1] }

\* the requests on a variable of the given rank
Requests(rank) ==
    IF rank = 1 THEN { <<r>> : r \in Axis0Reqs }
    ELSE { <<r, q>> : r \in Axis0Reqs, q \in Axis1Reqs }

\* f.variables[v][elem]
Read(v, elem) ==
    /\ outcome.status = "ok"
    /\ obs = NoObs
    /\ _vars[v].cls = "MFDataset.Variable"
    /\ \E r \in {GetItem(v, elem)} :
           obs' = [NoObs EXCEPT !.op = "getitem", !.var = v, !.req = elem,
                     !.raised = r.raised, !.log = r.log, !.value = r.value]
    /\ UNCHANGED <<cdfFiles, handles, _cdf, _cdfVLen, _cdfTLen, _cdfRecVar, outcome>>

\* The caller takes the value a call returned (or the exception it raised)
\* before it makes the next call: the module is synchronous.
Consume ==
    /\ obs # NoObs
    /\ obs' = NoObs
    /\ UNCHANGED <<cdfFiles, handles, _cdf, _cdfVLen, _cdfTLen, _cdfRecVar, outcome>>

(* ---------------------------- specifications --------------------------- *)

OpenAny(S, k) ==
    /\ outcome.status = "none"
    /\ \E files \in FileLists(S, k) : Open(files)

ReadAny ==
    /\ outcome.status = "ok"
    /\ obs = NoObs
    /\ \E elem \in Requests(Len(_vars["data"].dimensions)) : Read("data", elem)

NextOn(S, k) ==
    \/ OpenAny(S, k)
    \/ \E d \in {"x", "y"} : QueryLen(d)
    \/ QueryShape("data")
    \/ ReadAny
    \/ Consume

\* every layout, at most MaxFiles files
Next == NextOn(AllFiles, MaxFiles)
Spec == Init /\ [][Next]_vars

\* the usual layout only, at most MaxParts files
NextUsual == NextOn(UsualFiles, MaxParts)
SpecUsual == Init /\ [][NextUsual]_vars

(* ------------------------- reference definitions ----------------------- *)

Opened == outcome.status = "ok"
Failed == outcome.status = "raised"

\* the records file f holds
RecordsIn(f) == f.dimensions["x"].len

\* the records each file of the call holds, in the order of the call
Counts == [ k \in 1..Len(cdfFiles) |-> RecordsIn(OnDisk(cdfFiles[k])) ]

\* the records the first k files of the call hold together
RECURSIVE RecordsBefore(_, _)
RecordsBefore(counts, k) ==
    IF k = 0 THEN 0 ELSE RecordsBefore(counts, k - 1) + counts[k]

TotalRecords == RecordsBefore(Counts, Len(cdfFiles))

\* The records of all files laid end to end: entry p + 1 is <<file, offset>>
\* of global record p, files counted from 0.
Laid(counts) ==
    Let([ k \in 0..Len(counts) |-> RecordsBefore(counts, k) ], LAMBDA before :
        [ q \in 1..before[Len(counts)] |->
            LET n == CHOOSE m \in 1..Len(counts) :
                         before[m - 1] < q /\ q <= before[m]
            IN  <<n - 1, q - 1 - before[n - 1]>> ])

\* the positions 0..n-1 that the resolved request r = [start, count, stride]
\* with stride > 0 selects
Selected(r, n) ==
    { p \in 0..(n - 1) :
        /\ p >= r.start
        /\ (p - r.start) % r.stride = 0
        /\ (p - r.start) \div r.stride < Abs(r.count) }

\* a finite set of integers in ascending order
RECURSIVE Ascending(_)
Ascending(S) ==
    IF S = {} THEN <<>>
    ELSE LET m == CHOOSE x \in S : \A y \in S : x <= y
         IN  <<m>> \o Ascending(S \ {m})

\* the cells of the records at the global positions ps, in that order, that
\* the request elem selects: all of a record of one axis, the selected
\* columns cols of a record of two
RECURSIVE RowsOf(_, _, _, _)
RowsOf(elem, laid, cols, ps) ==
    IF ps = <<>> THEN <<>>
    ELSE (IF Len(elem) = 1 THEN <<laid[ps[1] + 1]>>
          ELSE [ j \in 1..Len(cols) |-> laid[ps[1] + 1] \o <<cols[j]>> ])
         \o RowsOf(elem, laid, cols, Tail(ps))

\* the columns the request elem selects of variable v
ColumnsOf(v, elem) ==
    IF Len(elem) = 1 THEN <<>>
    ELSE Ascending(Selected(elem[2], ShapeOf(OnDisk(cdfFiles[1]), v)[2]))

\* a read of the last call that went through with positive strides
ReadDone == Opened /\ obs.op = "getitem"
PositiveStrides == \A a \in 1..Len(obs.req) : obs.req[a].stride > 0

(* -------------------------------- claims ------------------------------- *)

\* C1: a read with positive strides returns, record for record and in the
\* same order, what the same (start, count, step) selection gives on the
\* records of all files laid end to end in file order.
C1_ReadEqualsSliceOfConcatenation ==
    (ReadDone /\ PositiveStrides) =>
        Let(Laid(Counts), LAMBDA laid :
        Let(Ascending(Selected(obs.req[1], Len(laid))), LAMBDA sel :
            /\ obs.raised = ""
            /\ obs.value.flat =
                  RowsOf(obs.req, laid, ColumnsOf(obs.var, obs.req), sel)
            /\ obs.value.shape[1] = Len(sel)))

C1_Witness ==
    /\ ReadDone /\ PositiveStrides
    /\ obs.req[1].stride = 2
    /\ Len(obs.log) >= 2
    /\ obs.value.shape[1] >= 3
    /\ obs.req[1].start > 0

\* C2: a read whose resolved stride on axis 0 is negative raises the
\* negative-stride error, issues no read to any file and returns no array,
\* whatever the start, the count and the other axes are.
C2_NegativeStrideRaises ==
    (ReadDone /\ obs.req[1].stride < 0) =>
        /\ obs.raised = "IndexError"
        /\ obs.log = <<>>
        /\ obs.value = NoArray

C2_Witness ==
    /\ ReadDone
    /\ obs.req[1].stride < 0
    /\ obs.req[1].count >= 2
    /\ Len(obs.req) = 2 /\ obs.req[2].stride > 0
    /\ TotalRecords >= 2
    /\ obs.raised = "IndexError"

\* C3: when the constructor fails on a file after the master, every handle
\* it opened (the master, the earlier files, the failing file) is closed.
C3_NoHandleLeftOpen ==
    (Failed /\ Len(handles) >= 2) =>
        \A i \in 1..Len(handles) : ~ handles[i].isopen

\* does variable v of file f differ from the master's record variable v?
Mismatch(master, f, v) ==
    \/ v \notin DOMAIN f.variables
    \/ /\ v \in DOMAIN f.variables
       /\ \/ f.variables[v].dimensions = <<>>
          \/ /\ f.variables[v].dimensions # <<>>
             /\ ~ f.dimensions[f.variables[v].dimensions[1]].unlim
          \/ f.variables[v].dimensions # master.variables[v].dimensions
          \/ Rest(ShapeOf(f, v)) # Rest(ShapeOf(master, v))
          \/ f.variables[v].dtype # master.variables[v].dtype

\* the record variables of a file: first dimension unlimited
RecordVars(f) ==
    { v \in DOMAIN f.variables :
        /\ f.variables[v].dimensions # <<>>
        /\ f.dimensions[f.variables[v].dimensions[1]].unlim }

\* the master of the call defines an unlimited dimension and a record variable
MasterValid == cdfFiles # <<>> /\ RecordVars(OnDisk(cdfFiles[1])) # {}

\* the files after the master that differ from it in some record variable
Mismatching ==
    { i \in 2..Len(cdfFiles) :
        \E v \in RecordVars(OnDisk(cdfFiles[1])) : Mismatch(OnDisk(cdfFiles[1]), OnDisk(cdfFiles[i]), v) }

\* C4: when a file after the master lacks a record variable of the master or
\* differs in it (not a record variable, dimension names, rank, shape beyond
\* axis 0, element type), the constructor raises the schema error, whatever
\* the number of records of that file.
C4_MismatchRaisesSchemaError ==
    (outcome.status # "none" /\ MasterValid /\ Mismatching # {}) =>
        /\ Failed
        /\ outcome.exc = "MFDatasetError"
        /\ outcome.prop \in {"not defined", "not a record var", "dimensions",
                             "rank", "shape", "data type"}

\* C5, the state part: after a successful open there is one record count per file, the stored
\* total is the sum of the files' record counts, the unlimited dimension and
\* the first component of the variable's shape report that sum, every length
\* or shape query returns it, and no query or read changes the dataset.
C5_StateOk ==
    Opened =>
        Let(Counts, LAMBDA counts :
        Let(RecordsBefore(counts, Len(counts)), LAMBDA total :
            /\ Len(_cdfVLen) = Len(cdfFiles)
            /\ Len(_cdf) = Len(cdfFiles)
            /\ _cdfVLen = counts
            /\ _cdfTLen = total
            /\ DimLen(_dims["x"]) = total
            /\ \A v \in DOMAIN _cdfRecVar :
                  /\ Shape(v)[1] = total
                  /\ Len(_cdfRecVar[v]) = Len(cdfFiles)
            /\ (obs.op = "len" /\ obs.var = "x") => obs.len = total
            /\ obs.op = "shape" => obs.value.shape[1] = total))

\* C5: the above holds in every state, and once the open has succeeded no
\* step (length query, shape query, read) changes the dataset's fields.
C5_TotalIsSumAndQueriesArePure ==
    /\ [] C5_StateOk
    /\ [][Opened => UNCHANGED <<cdfFiles, handles, _cdf, _cdfVLen, _cdfTLen,
                                _cdfRecVar, outcome>>]_vars

C5_Witness ==
    /\ Opened
    /\ Len(cdfFiles) >= 2
    /\ obs.op = "len" /\ obs.var = "x"
    /\ obs.len = TotalRecords
    /\ obs.len > RecordsIn(OnDisk(cdfFiles[1]))
    /\ RecordsIn(OnDisk(cdfFiles[1])) > 0

\* what the file opened on its own returns for the request: a plain index
\* (count -1) stays a plain index, a range stays a range
DirectRead(file, v, elem) ==
    FileRead(0, file, v,
        [ a \in 1..Len(elem) |->
            IF elem[a].count = -1 THEN IndexOf(elem[a].start)
            ELSE SliceOf(elem[a].start,
                         elem[a].start + elem[a].count * elem[a].stride,
                         elem[a].stride) ])

\* the single file accepts the request: positive strides, plain indices in range
Accepted(file, v, elem) ==
    \A a \in 1..Len(elem) :
        /\ elem[a].stride > 0
        /\ elem[a].count = -1 => elem[a].start < ShapeOf(file, v)[a]

\* C6: a dataset over exactly one file returns for every accepted request
\* what the file read directly returns (same shape, same values), and reports
\* the file's shape.
C6_SingleFileIsTransparent ==
    (Opened /\ Len(cdfFiles) = 1) =>
        /\ (obs.op = "getitem" /\ Accepted(OnDisk(cdfFiles[1]), obs.var, obs.req)) =>
              /\ obs.raised = ""
              /\ obs.value = DirectRead(OnDisk(cdfFiles[1]), obs.var, obs.req)
        /\ obs.op = "shape" => obs.value.shape = ShapeOf(OnDisk(cdfFiles[1]), obs.var)

\* C7: the constructor called with no file raises the empty-file-list error
\* and opens nothing.
C7_EmptyListRaisesEmptyFileListError ==
    (outcome.status # "none" /\ cdfFiles = <<>>) =>
        /\ Failed
        /\ outcome.exc = "EmptyFileListError"
        /\ handles = <<>>

\* the offsets of its file the k-th read of the last call asks for
LoggedOffsets(k) ==
    LET it == obs.log[k].items[1]
    IN  { i \in 0..(_cdfVLen[obs.log[k].file + 1] - 1) :
            it.start <= i /\ i < it.stop /\ (i - it.start) % it.step = 0 }

Least(S) == CHOOSE x \in S : \A y \in S : x <= y
Greatest(S) == CHOOSE x \in S : \A y \in S : x >= y

\* one read to each file that holds one of the selected records sel (pairs
\* <<file, offset>>) and none to the others, in ascending file order, from
\* the file's first selected offset to its last
ReadsMatch(sel) ==
    /\ { obs.log[k].file : k \in 1..Len(obs.log) } = { s[1] : s \in sel }
    /\ \A j, k \in 1..Len(obs.log) : j < k => obs.log[j].file < obs.log[k].file
    /\ \A k \in 1..Len(obs.log) :
          LET it == obs.log[k].items[1]
              locals == { s[2] : s \in { t \in sel : t[1] = obs.log[k].file } }
          IN  /\ it.kind = "slice"
              /\ it.start = Least(locals)
              /\ it.stop = Greatest(locals) + 1
              /\ it.step = obs.req[1].stride
              /\ LoggedOffsets(k) = locals

OneReadPerTouchedFile ==
    Let(Laid(Counts), LAMBDA laid :
        ReadsMatch({ laid[p + 1] : p \in Selected(obs.req[1], Len(laid)) }))

\* the read 4:13:2 over files of 5, 7 and 3 records
Scenario ==
    /\ ReadDone /\ PositiveStrides
    /\ _cdfVLen = <<5, 7, 3>>
    /\ obs.req[1] = [start |-> 4, count |-> 5, stride |-> 2]

\* the reads of the scenario: three, of files 0, 1, 2, the last one asking
\* for the offsets last2 of file 2; five records in all
ScenarioReads(last2) ==
    /\ Len(obs.log) = 3
    /\ obs.log[1].file = 0 /\ LoggedOffsets(1) = {4}
    /\ obs.log[2].file = 1 /\ LoggedOffsets(2) = {1, 3, 5}
    /\ obs.log[3].file = 2 /\ LoggedOffsets(3) = last2
    /\ obs.value.shape[1] = 5

\* C8: a read with positive strides issues one read to each file that holds a
\* selected record and none to the others, in ascending file order, each from
\* the file's first selected offset to its last with the same step; with
\* record counts 5, 7, 3 and the selection 4:13:2 the reads are offsets {4} of
\* file 0, {1, 3, 5} of file 1 and {0} of file 2 (global record 12 is the
\* first record of file 2), five records in all.
C8_OneReadPerTouchedFile ==
    (ReadDone /\ PositiveStrides) =>
        /\ OneReadPerTouchedFile
        /\ Scenario => ScenarioReads({0})

C8_Witness == Scenario /\ Len(obs.log) = 3 /\ obs.log[3].file = 2

\* C8 as the specification states it: in the scenario the read of file 2
\* asks for offset 2.
C8_AsStated ==
    (ReadDone /\ PositiveStrides) =>
        /\ OneReadPerTouchedFile
        /\ Scenario => ScenarioReads({2})

\* C9: the constructor succeeds whenever the master is valid and no further
\* file differs from it in a record variable, whatever number of records the
\* files hold.
C9_CompatibleFilesAreAccepted ==
    (outcome.status # "none" /\ MasterValid /\ Mismatching = {}) => Opened

\* C10: the handles of the files keep their own catalogs: after a successful
\* open, and after any queries and reads, each handle's dimension and
\* variable entries are those of its file, the master's included.
C10_HandlesKeepTheirCatalogs ==
    Opened =>
        \A i \in 1..Len(handles) :
            /\ handles[i].isopen
            /\ handles[i].dimensions = OnDisk(cdfFiles[i]).dimensions
            /\ handles[i].variables = OnDisk(cdfFiles[i]).variables

====
